---- MODULE Spec2Model ----
(***************************************************************************)
(* optionally_const: the OptionallyConst / Const traits, the blanket       *)
(* dynamic implementation, ConstTypeBool<VAL>, and the output of           *)
(* #[derive(FieldlessEnumConstType)] for a fieldless enum.                  *)
(*                                                                         *)
(* A state is one derive input (the enum item handed to the derive macro), *)
(* the items the macro emitted for it, and the last call made on the       *)
(* library or on the generated items together with what it returned.       *)
(***************************************************************************)
EXTENDS Integers, Sequences, FiniteSets, TLC

VARIABLES input, output, pc, call

vars == <<input, output, pc, call>>

(* ------------------------------ bounds -------------------------------- *)

\* largest number of variants of the enum handed to the derive
MaxVariants == 3

\* largest explicit discriminant written on a variant (V = k)
MaxDisc == 2

(* --------------------- Option, Result, types, values ------------------- *)

None == [some |-> FALSE]

Some(c) == [some |-> TRUE, val |-> c]

Ok(x) == [ok |-> TRUE, val |-> x]

Err(e) == [ok |-> FALSE, err |-> e]

\* Result::err where Result::ok was meant
ResultErr(r) == IF r.ok THEN None ELSE Some(r.err)

\* Result::ok
ResultOk(r) == IF r.ok THEN Some(r.val) ELSE None

\* Option::ok_or
OptionOkOr(o, e) == IF o.some THEN Ok(o.val) ELSE Err(e)

\* the types of the program
BoolT == [ty |-> "bool"]

ConstTypeBool(VAL) == [ty |-> "ConstTypeBool", VAL |-> VAL]

EnumT == [ty |-> "Enum"]

ConstTypeName(DISCRIMINANT) == [ty |-> "ConstTypeName", DISCRIMINANT |-> DISCRIMINANT]

\* instances: a value carries its type; the marker types are unit structs
BoolVal(b) == [of |-> BoolT, b |-> b]

EnumVal(i) == [of |-> EnumT, variant |-> i]

Unit(S) == [of |-> S]

(* --------------------------- the derive input -------------------------- *)

\* a variant without "= k"
NoDisc == -1

VariantDecls ==
    [fields : {"Unit"}, disc : {NoDisc} \cup (0..MaxDisc)]
        \cup [fields : {"Named", "Unnamed"}, disc : {NoDisc}]

VariantLists == UNION {[1..n -> VariantDecls] : n \in 0..MaxVariants}

\* the native discriminant of the i-th declared variant: the explicit one,
\* else one more than the previous variant's, else 0
RECURSIVE Discriminant(_, _)
Discriminant(variants, i) ==
    IF variants[i].disc # NoDisc THEN variants[i].disc
    ELSE IF i = 1 THEN 0
    ELSE Discriminant(variants, i - 1) + 1

\* rustc rejects an enum in which two variants share a discriminant
DistinctDiscriminants(variants) ==
    \A i, j \in 1..Len(variants) :
        i # j => Discriminant(variants, i) # Discriminant(variants, j)

\* the #[const_type ...] attribute: absent, or present as a path, a
\* name-value or a list; for a list, what its tokens are
ConstTypeAttrs ==
    [meta : {"missing", "Path", "NameValue"}, tokens : {"Empty"}]
        \cup [meta : {"List"},
              tokens : {"Empty", "Ident", "AttrsIdent", "TwoIdents"}]

DeriveInputs ==
    [attrs : ConstTypeAttrs, data : {"Struct", "Union"}, variants : {<<>>}]
        \cup {in \in [attrs : ConstTypeAttrs, data : {"Enum"},
                      variants : VariantLists] :
                DistinctDiscriminants(in.variants)}

(* ---------------------- the derive macro (generator) ------------------- *)

Panic(msg, at) == [emitted |-> FALSE, panic |-> msg, variant |-> at]

\* find_const_type_attr: the first attribute whose path is const_type, or panic
find_const_type_attr(attrs) ==
    IF attrs.meta = "missing"
    THEN Panic("Expected #[const_type(ConstTypeName)] attribute", 0)
    ELSE [emitted |-> TRUE, attr |-> attrs]

\* ConstTypeSyntax: outer attributes, then one identifier, then end of input
ParsesAsConstTypeSyntax(tokens) == tokens \in {"Ident", "AttrsIdent"}

\* const_type_syntax: the attribute must be a list whose tokens parse
const_type_syntax(attrs) ==
    LET found == find_const_type_attr(attrs) IN
    IF ~found.emitted THEN found
    ELSE IF found.attr.meta # "List"
    THEN Panic("Expected #[const_type(ConstTypeName)] attribute to be a list", 0)
    ELSE IF ~ParsesAsConstTypeSyntax(found.attr.tokens)
    THEN Panic("Expected #[const_type(ConstTypeName)] attribute to contain a single identifier", 0)
    ELSE [emitted |-> TRUE,
          attrs |-> (found.attr.tokens = "AttrsIdent"),
          name |-> "ConstTypeName"]

\* a check that looked at the first variant only
assert_fieldless_enum_first_only(variants) ==
    IF Len(variants) = 0 \/ variants[1].fields = "Unit"
    THEN [emitted |-> TRUE]
    ELSE Panic("Expected fieldless enum variant, found non-fieldless variant", 1)

\* assert_fieldless_enum: panics at the first variant whose fields are not Unit
assert_fieldless_enum(variants) ==
    LET bad == {i \in 1..Len(variants) : variants[i].fields # "Unit"} IN
    IF bad = {} THEN [emitted |-> TRUE]
    ELSE Panic("Expected fieldless enum variant, found non-fieldless variant",
               CHOOSE i \in bad : \A j \in bad : i <= j)

\* a cast that yielded the declaration position
AsUsize_position(variants, i) == i - 1

\* `E::V as usize` for the i-th declared variant
AsUsize(variants, i) == Discriminant(variants, i)

\* a generator that numbered the tags itself, by declaration position
const_impls_by_position(variants) ==
    [i \in 1..Len(variants) |-> [tag |-> i - 1, VALUE |-> EnumVal(i)]]

\* one `impl Const<E> for ConstTypeName<{E::V as usize}>` per variant
const_impls(variants) ==
    [i \in 1..Len(variants) |->
        [tag |-> AsUsize(variants, i), VALUE |-> EnumVal(i)]]

\* a generator that lost the repetition and named the first variant in
\* every into_value
optionally_const_impls_first_variant(variants) ==
    [i \in 1..Len(variants) |->
        [tag |-> AsUsize(variants, i),
         MAYBE_CONST |-> Some(EnumVal(i)),
         into_value |-> EnumVal(1)]]

\* one `impl OptionallyConst<E> for ConstTypeName<{E::V as usize}>` per variant
optionally_const_impls(variants) ==
    [i \in 1..Len(variants) |->
        [tag |-> AsUsize(variants, i),
         MAYBE_CONST |-> Some(EnumVal(i)),
         into_value |-> EnumVal(i)]]

\* the struct ConstTypeName<const DISCRIMINANT: usize> with the attributes of
\* the const_type attribute placed on it verbatim
const_type_defn(syntax) == [name |-> syntax.name, attrs |-> syntax.attrs]

derive_fieldless_enum_const_type(in) ==
    LET syntax == const_type_syntax(in.attrs) IN
    IF ~syntax.emitted THEN syntax
    ELSE IF in.data # "Enum"
    THEN Panic("#[derive(FieldlessEnumConstType)] can only be used on enums.", 0)
    ELSE LET fieldless == assert_fieldless_enum(in.variants) IN
    IF ~fieldless.emitted THEN fieldless
    ELSE [emitted |-> TRUE,
          try_into_const_type_instance |-> TRUE,
          const_type_defn |-> const_type_defn(syntax),
          const_impls |-> const_impls(in.variants),
          optionally_const_impls |-> optionally_const_impls(in.variants)]

(* ------------------- the traits and their implementations ------------- *)

\* the largest tag a call names: one past the largest discriminant an enum
\* of the input set can have, so that some tag is the tag of no variant
MaxTag == MaxDisc + MaxVariants

Tags == 0..MaxTag

Types ==
    {BoolT, EnumT, ConstTypeBool(TRUE), ConstTypeBool(FALSE)}
        \cup {ConstTypeName(d) : d \in Tags}

\* the instances of a type in the running program
Instances(S) ==
    CASE S.ty = "bool" -> {BoolVal(TRUE), BoolVal(FALSE)}
      [] S.ty = "Enum" -> {EnumVal(i) : i \in 1..Len(input.variants)}
      [] OTHER -> {Unit(S)}

\* Clone + Copy + PartialEq: bool has them, hidden::ConstTypeBool and the
\* enum derive them, the generated struct has them iff the attributes of the
\* const_type attribute derive them
HasCloneCopyPartialEq(S) ==
    IF S.ty = "ConstTypeName"
    THEN output.emitted /\ output.const_type_defn.attrs
    ELSE TRUE

\* the generated impls at the tag of the type S = ConstTypeName<d>
ConstImplsAt(S) ==
    {k \in 1..Len(output.const_impls) :
        output.const_impls[k].tag = S.DISCRIMINANT}

OptionallyConstImplsAt(S) ==
    {k \in 1..Len(output.optionally_const_impls) :
        output.optionally_const_impls[k].tag = S.DISCRIMINANT}

\* S: Const<T>
ImplementsConst(S, T) ==
    \/ S.ty = "ConstTypeBool" /\ T = BoolT
    \/ S.ty = "ConstTypeName" /\ T = EnumT /\ output.emitted
        /\ ConstImplsAt(S) # {}

\* which impl makes S: OptionallyConst<T>, if any
ImplKind(S, T) ==
    IF S = T /\ HasCloneCopyPartialEq(S) THEN "blanket"
    ELSE IF S.ty = "ConstTypeBool" /\ T = BoolT THEN "ConstTypeBool"
    ELSE IF S.ty = "ConstTypeName" /\ T = EnumT /\ output.emitted
            /\ OptionallyConstImplsAt(S) # {} THEN "ConstTypeName"
    ELSE "none"

ImplementsOptionallyConst(S, T) == ImplKind(S, T) # "none"

\* Const::VALUE
VALUE(S, T) ==
    IF S.ty = "ConstTypeBool" THEN BoolVal(S.VAL)
    ELSE output.const_impls[CHOOSE k \in ConstImplsAt(S) : TRUE].VALUE

\* impl<T> OptionallyConst<T> for T
Blanket_MAYBE_CONST == None

Blanket_into_value(self) == self

\* a blanket impl that rejected every value
Blanket_try_from_value_rejecting(value) == Err(value)

Blanket_try_from_value(value) == Ok(value)

\* impl<const VAL: bool> OptionallyConst<bool> for ConstTypeBool<VAL>
\* a marker impl that left the constant out
ConstTypeBool_MAYBE_CONST_absent(S) == None

ConstTypeBool_MAYBE_CONST(S) == Some(BoolVal(S.VAL))

ConstTypeBool_into_value(S) == BoolVal(S.VAL)

\* the comparison negated
ConstTypeBool_try_from_value_negated(S, value) ==
    IF value # BoolVal(S.VAL) THEN Ok(Unit(S)) ELSE Err(value)

ConstTypeBool_try_from_value(S, value) ==
    IF value = BoolVal(S.VAL) THEN Ok(Unit(S)) ELSE Err(value)

\* a pattern that is a lone identifier is a path pattern when the identifier
\* names a constant, a unit struct or a variant in scope, and otherwise a
\* fresh binding
IdentifierPattern(names_constant, v) ==
    [binding |-> ~names_constant, val |-> v]

\* matches!(expression, pattern): a binding matches every value
matches(expression, pattern) ==
    IF pattern.binding THEN TRUE ELSE expression = pattern.val

\* the generated impl OptionallyConst<E> for ConstTypeName<{E::V as usize}>
ConstTypeName_MAYBE_CONST(S) ==
    output.optionally_const_impls[
        CHOOSE k \in OptionallyConstImplsAt(S) : TRUE].MAYBE_CONST

ConstTypeName_into_value(S) ==
    output.optionally_const_impls[
        CHOOSE k \in OptionallyConstImplsAt(S) : TRUE].into_value

\* the branches exchanged
ConstTypeName_try_from_value_exchanged(S, value) ==
    IF matches(VALUE(S, EnumT), IdentifierPattern(FALSE, value))
    THEN Err(value)
    ELSE Ok(Unit(S))

\* `value` in the pattern is the parameter of the function, a local
ConstTypeName_try_from_value(S, value) ==
    IF matches(VALUE(S, EnumT), IdentifierPattern(FALSE, value))
    THEN Ok(Unit(S))
    ELSE Err(value)

\* the trait's items, resolved to the impl of S for OptionallyConst<T>
MAYBE_CONST(S, T) ==
    CASE ImplKind(S, T) = "blanket" -> Blanket_MAYBE_CONST
      [] ImplKind(S, T) = "ConstTypeBool" -> ConstTypeBool_MAYBE_CONST(S)
      [] ImplKind(S, T) = "ConstTypeName" -> ConstTypeName_MAYBE_CONST(S)

into_value(S, T, self) ==
    CASE ImplKind(S, T) = "blanket" -> Blanket_into_value(self)
      [] ImplKind(S, T) = "ConstTypeBool" -> ConstTypeBool_into_value(S)
      [] ImplKind(S, T) = "ConstTypeName" -> ConstTypeName_into_value(S)

try_from_value(S, T, value) ==
    CASE ImplKind(S, T) = "blanket" -> Blanket_try_from_value(value)
      [] ImplKind(S, T) = "ConstTypeBool" -> ConstTypeBool_try_from_value(S, value)
      [] ImplKind(S, T) = "ConstTypeName" -> ConstTypeName_try_from_value(S, value)

\* a bridge that handed `another` itself to try_from_value
try_from_another_unextracted(S, T, U, another) ==
    OptionOkOr(ResultOk(try_from_value(S, T, another)), another)

\* the provided method of the trait
try_from_another(S, T, U, another) ==
    OptionOkOr(ResultOk(try_from_value(S, T, into_value(U, T, another))),
               another)

\* a conversion that compared the declaration position with the tag
try_into_const_type_instance_by_position(self, DISCRIMINANT) ==
    IF self.variant - 1 = DISCRIMINANT
    THEN Ok(Unit(ConstTypeName(DISCRIMINANT)))
    ELSE Err(self)

\* the generated inherent method of the enum
try_into_const_type_instance(self, DISCRIMINANT) ==
    IF AsUsize(input.variants, self.variant) = DISCRIMINANT
    THEN Ok(Unit(ConstTypeName(DISCRIMINANT)))
    ELSE Err(self)

\* the macro const_type_instance!
const_type_instance(tokens) ==
    CASE tokens \in {"true", "true: bool"} -> Unit(ConstTypeBool(TRUE))
      [] tokens \in {"false", "false: bool"} -> Unit(ConstTypeBool(FALSE))

(* ------------------------------ the program ---------------------------- *)

NoOutput == [emitted |-> FALSE, panic |-> "", variant |-> 0]

NoCall == [op |-> "none"]

Init ==
    /\ input \in DeriveInputs
    /\ output = NoOutput
    /\ pc = "input"
    /\ call = NoCall

\* the compiler expands the derive on the enum item
Derive ==
    /\ pc = "input"
    /\ output' = derive_fieldless_enum_const_type(input)
    /\ pc' = IF output'.emitted THEN "generated" ELSE "failed"
    /\ UNCHANGED <<input, call>>

\* the crate of the enum builds: the derive emitted its items, and the
\* generated impls of OptionallyConst meet the supertraits of the trait
Compiles ==
    /\ pc = "generated"
    /\ \A k \in 1..Len(output.optionally_const_impls) :
            HasCloneCopyPartialEq(
                ConstTypeName(output.optionally_const_impls[k].tag))

Call_VALUE ==
    /\ Compiles
    /\ \E S \in Types, T \in {BoolT, EnumT} :
        /\ ImplementsConst(S, T)
        /\ call' = [op |-> "VALUE", Self |-> S, T |-> T,
                    ret |-> VALUE(S, T)]
    /\ UNCHANGED <<input, output, pc>>

Call_MAYBE_CONST ==
    /\ Compiles
    /\ \E S \in Types, T \in Types :
        /\ ImplementsOptionallyConst(S, T)
        /\ call' = [op |-> "MAYBE_CONST", Self |-> S, T |-> T,
                    ret |-> MAYBE_CONST(S, T)]
    /\ UNCHANGED <<input, output, pc>>

Call_into_value ==
    /\ Compiles
    /\ \E S \in Types, T \in Types :
        /\ ImplementsOptionallyConst(S, T)
        /\ \E self \in Instances(S) :
            call' = [op |-> "into_value", Self |-> S, T |-> T,
                     arg |-> self, ret |-> into_value(S, T, self)]
    /\ UNCHANGED <<input, output, pc>>

Call_try_from_value ==
    /\ Compiles
    /\ \E S \in Types, T \in Types :
        /\ ImplementsOptionallyConst(S, T)
        /\ \E value \in Instances(T) :
            call' = [op |-> "try_from_value", Self |-> S, T |-> T,
                     arg |-> value, ret |-> try_from_value(S, T, value)]
    /\ UNCHANGED <<input, output, pc>>

Call_try_from_another ==
    /\ Compiles
    /\ \E S \in Types, T \in Types, U \in Types :
        /\ ImplementsOptionallyConst(S, T)
        /\ ImplementsOptionallyConst(U, T)
        /\ HasCloneCopyPartialEq(T)
        /\ \E another \in Instances(U) :
            call' = [op |-> "try_from_another", Self |-> S, T |-> T,
                     U |-> U, arg |-> another,
                     ret |-> try_from_another(S, T, U, another)]
    /\ UNCHANGED <<input, output, pc>>

Call_try_into_const_type_instance ==
    /\ Compiles
    /\ \E self \in Instances(EnumT), DISCRIMINANT \in Tags :
        /\ ImplementsConst(ConstTypeName(DISCRIMINANT), EnumT)
        /\ call' = [op |-> "try_into_const_type_instance", Self |-> EnumT,
                    DISCRIMINANT |-> DISCRIMINANT, arg |-> self,
                    ret |-> try_into_const_type_instance(self, DISCRIMINANT)]
    /\ UNCHANGED <<input, output, pc>>

Call_const_type_instance ==
    /\ Compiles
    /\ \E tokens \in {"true", "true: bool", "false", "false: bool"} :
        call' = [op |-> "const_type_instance", tokens |-> tokens,
                 ret |-> const_type_instance(tokens)]
    /\ UNCHANGED <<input, output, pc>>

Next ==
    \/ Derive
    \/ Call_VALUE
    \/ Call_MAYBE_CONST
    \/ Call_into_value
    \/ Call_try_from_value
    \/ Call_try_from_another
    \/ Call_try_into_const_type_instance
    \/ Call_const_type_instance

Spec == Init /\ [][Next]_vars

(* ------------------------------ properties ----------------------------- *)

Variants == 1..Len(input.variants)

\* the tag the generator gave the marker type whose Const::VALUE is V
TagOf(V) ==
    output.const_impls[
        CHOOSE k \in 1..Len(output.const_impls) :
            output.const_impls[k].VALUE = EnumVal(V)].tag

\* the value an instance of an implementor of OptionallyConst<E> stands for
EnumValueOf(u) == IF u.of = EnumT THEN u ELSE VALUE(u.of, EnumT)

HasExplicitDiscriminant ==
    \E i \in Variants : input.variants[i].disc # NoDisc

\* C1: try_from_value(X) on the generated marker type of V returns
\* Ok(marker of V) if X equals V and otherwise Err(X)
C1_MarkerTryFromValue ==
    (call.op = "try_from_value" /\ call.Self.ty = "ConstTypeName"
        /\ call.T = EnumT)
    => call.ret = IF call.arg = VALUE(call.Self, EnumT)
                  THEN Ok(Unit(call.Self))
                  ELSE Err(call.arg)

\* C2: try_from_another(u) with the marker type of A as target returns
\* Ok(marker of A) if the value of u equals A and otherwise Err(u), the
\* source instance itself
C2_MarkerTryFromAnother ==
    (call.op = "try_from_another" /\ call.Self.ty = "ConstTypeName"
        /\ call.T = EnumT)
    => call.ret = IF EnumValueOf(call.arg) = VALUE(call.Self, EnumT)
                  THEN Ok(Unit(call.Self))
                  ELSE Err(call.arg)

\* C3: V.try_into_const_type_instance::<tag of W>() returns Ok(marker
\* instance at the tag of W) if V is W and otherwise Err(V)
C3_TryIntoConstTypeInstance ==
    call.op = "try_into_const_type_instance"
    => \A W \in Variants :
        TagOf(W) = call.DISCRIMINANT
        => call.ret = IF call.arg = EnumVal(W)
                      THEN Ok(Unit(ConstTypeName(TagOf(W))))
                      ELSE Err(call.arg)

C3_Witness ==
    /\ call.op = "try_into_const_type_instance"
    /\ call.ret = Err(EnumVal(1))
    /\ call.DISCRIMINANT = TagOf(2)
    /\ HasExplicitDiscriminant

\* C4 as stated: the marker type with Const::VALUE = V has the tag that is
\* V's 0-based declaration position, which is V's native discriminant
C4_TagIsDeclarationPosition ==
    (call.op = "VALUE" /\ call.Self.ty = "ConstTypeName")
    => /\ call.Self.DISCRIMINANT = call.ret.variant - 1
       /\ call.ret.variant - 1 = Discriminant(input.variants, call.ret.variant)

\* C4 amended: the marker type with Const::VALUE = V has the tag that is
\* V's native discriminant (V as usize); that is V's 0-based declaration
\* position when the enum writes no explicit discriminant
C4_TagIsNativeDiscriminant ==
    (call.op = "VALUE" /\ call.Self.ty = "ConstTypeName")
    => /\ call.Self.DISCRIMINANT
            = Discriminant(input.variants, call.ret.variant)
       /\ ~HasExplicitDiscriminant
            => call.Self.DISCRIMINANT = call.ret.variant - 1

C4_Witness ==
    /\ call.op = "VALUE" /\ call.Self.ty = "ConstTypeName"
    /\ call.Self.DISCRIMINANT # call.ret.variant - 1

C6_BlanketDynamic ==
    (call.op \in {"MAYBE_CONST", "into_value", "try_from_value"}
        /\ call.Self = call.T)
    => /\ call.op = "MAYBE_CONST" => call.ret = None
       /\ call.op = "into_value" => call.ret = call.arg
       /\ call.op = "try_from_value" => call.ret = Ok(call.arg)

C6_Witness ==
    /\ call.op = "try_from_value" /\ call.Self = call.T
    /\ call.T = EnumT /\ call.arg = EnumVal(2)

\* C7: ConstTypeBool<b>, which const_type_instance!(b) constructs, has
\* VALUE = b, MAYBE_CONST = Some(b) and into_value = b, and its
\* try_from_value(v) is Ok(marker) if v = b and Err(v) otherwise
C7_ConstTypeBool ==
    /\ (call.op = "const_type_instance")
        => call.ret = Unit(ConstTypeBool(call.tokens \in {"true", "true: bool"}))
    /\ (call.op \in {"VALUE", "MAYBE_CONST", "into_value", "try_from_value"}
            /\ call.Self.ty = "ConstTypeBool" /\ call.T = BoolT)
        => /\ call.op = "VALUE" => call.ret = BoolVal(call.Self.VAL)
           /\ call.op = "MAYBE_CONST"
                => call.ret = Some(BoolVal(call.Self.VAL))
           /\ call.op = "into_value" => call.ret = BoolVal(call.Self.VAL)
           /\ call.op = "try_from_value"
                => call.ret = IF call.arg.b = call.Self.VAL
                              THEN Ok(Unit(call.Self))
                              ELSE Err(call.arg)

C7_Witness ==
    /\ call.op = "try_from_value"
    /\ call.Self = ConstTypeBool(FALSE) /\ call.T = BoolT
    /\ call.ret = Err(BoolVal(TRUE))

\* C8: the marker type at V's tag has Const::VALUE = V,
\* MAYBE_CONST = Some(V) and into_value returning V
C8_MarkerConsistent ==
    (call.op \in {"VALUE", "MAYBE_CONST", "into_value"}
        /\ call.Self.ty = "ConstTypeName" /\ call.T = EnumT)
    => \A V \in Variants :
        call.Self.DISCRIMINANT = Discriminant(input.variants, V)
        => /\ call.op = "VALUE" => call.ret = EnumVal(V)
           /\ call.op = "MAYBE_CONST" => call.ret = Some(EnumVal(V))
           /\ call.op = "into_value" => call.ret = EnumVal(V)

C8_Witness ==
    /\ call.op = "into_value"
    /\ call.Self.ty = "ConstTypeName" /\ call.T = EnumT
    /\ call.ret = EnumVal(3)
    /\ HasExplicitDiscriminant

\* C9: for every implementor S and every instance x of S,
\* S::try_from_value(x.into_value()) returns Ok(y) with y equal to x
C9_RoundTrip ==
    call.op = "try_from_value"
    => \A x \in Instances(call.Self) :
        call.arg = into_value(call.Self, call.T, x) => call.ret = Ok(x)

C9_Witness ==
    /\ call.op = "try_from_value"
    /\ call.Self.ty = "ConstTypeName" /\ call.T = EnumT
    /\ call.arg = into_value(call.Self, call.T, Unit(call.Self))
    /\ call.ret = Ok(Unit(call.Self))
    /\ Len(input.variants) > 1

\* S is dynamic or static over some domain
IsDynamic(S) ==
    \E T \in Types : ImplementsOptionallyConst(S, T) /\ ~MAYBE_CONST(S, T).some

IsStatic(S) ==
    \E T \in Types : ImplementsOptionallyConst(S, T) /\ MAYBE_CONST(S, T).some

\* C10 as stated: a type that implements OptionallyConst is either dynamic
\* or static, never both and never neither
C10_TypeDynamicOrStatic ==
    call.op = "MAYBE_CONST" => (IsDynamic(call.Self) # IsStatic(call.Self))

\* C10 amended: for a type S and a domain T with S: OptionallyConst<T>, the
\* implementation is dynamic (MAYBE_CONST = None) exactly when S is T, and
\* otherwise static with the one constant Const::VALUE of S; a marker type
\* that carries Clone, Copy and PartialEq is static over its value domain
\* and dynamic over itself
C10_ImplDynamicOrStatic ==
    call.op = "MAYBE_CONST"
    => /\ (call.ret = None) = (call.Self = call.T)
       /\ call.Self # call.T
            => /\ call.ret = Some(VALUE(call.Self, call.T))
               /\ call.Self.ty = "ConstTypeName"
                    => Cardinality(OptionallyConstImplsAt(call.Self)) = 1
               /\ ImplementsOptionallyConst(call.Self, call.Self)
               /\ MAYBE_CONST(call.Self, call.Self) = None

C10_Witness ==
    /\ call.op = "MAYBE_CONST"
    /\ call.Self.ty = "ConstTypeName" /\ call.T = EnumT
    /\ call.ret = Some(EnumVal(2))
    /\ IsDynamic(call.Self)

(* ----------------------- generation-time failures --------------------- *)

\* (a) the const_type attribute is missing or malformed
AttrMalformed ==
    input.attrs.meta # "List"
        \/ input.attrs.tokens \notin {"Ident", "AttrsIdent"}

\* (b) the input is not an enum
NotAnEnum == input.data # "Enum"

\* (c) the variants that carry data
DataVariants == {i \in Variants : input.variants[i].fields # "Unit"}

\* all four generated items, one pair of impls per variant
CompleteOutput ==
    /\ output.emitted
    /\ output.try_into_const_type_instance
    /\ output.const_type_defn.name = "ConstTypeName"
    /\ Len(output.const_impls) = Len(input.variants)
    /\ Len(output.optionally_const_impls) = Len(input.variants)
    /\ \A i \in Variants :
        /\ output.const_impls[i].VALUE = EnumVal(i)
        /\ output.optionally_const_impls[i].MAYBE_CONST = Some(EnumVal(i))

GenerationFailsOrCompletes ==
    IF AttrMalformed \/ NotAnEnum \/ DataVariants # {}
    THEN pc = "failed" /\ ~output.emitted
    ELSE pc = "generated" /\ CompleteOutput

\* C11 as stated: generation fails, emitting nothing, whenever (a), (b) or
\* (c) holds, in case (c) the failure names the offending variant, and in
\* every other case the complete output is emitted
C11_FailureNamesVariant ==
    pc # "input"
    => /\ GenerationFailsOrCompletes
       /\ DataVariants # {} => output.variant \in DataVariants

\* C11 amended: as stated, except that the failure names the offending
\* variant (the first one that carries data) in case (c) when the const_type
\* attribute is well-formed; when (a) holds too, the failure is the
\* attribute's and names no variant
C11_FailureNamesFirstVariant ==
    pc # "input"
    => /\ GenerationFailsOrCompletes
       /\ (DataVariants # {} /\ ~AttrMalformed)
            => /\ output.variant \in DataVariants
               /\ \A j \in DataVariants : output.variant <= j
       /\ (DataVariants # {} /\ AttrMalformed) => output.variant = 0

C11_Witness ==
    /\ pc = "failed"
    /\ ~AttrMalformed
    /\ Len(input.variants) = 3
    /\ input.variants[1].fields = "Unit"
    /\ output.variant = 2
    /\ Cardinality(DataVariants) = 2

(* ------------------------- tags without a variant ---------------------- *)

\* d is the tag (V as usize) of some variant V
IsVariantTag(d) ==
    \E V \in Variants : Discriminant(input.variants, V) = d

\* C12: the family member at a tag that is the tag of no variant implements
\* neither Const<E> nor OptionallyConst<E>, and the tagged conversion is
\* available exactly at the tags of the variants
C12_NoImplsOffVariantTags ==
    Compiles
    => /\ \A d \in Tags :
            /\ ImplementsConst(ConstTypeName(d), EnumT) = IsVariantTag(d)
            /\ ImplementsOptionallyConst(ConstTypeName(d), EnumT)
                    = IsVariantTag(d)
       /\ call.op = "try_into_const_type_instance"
            => IsVariantTag(call.DISCRIMINANT)

C12_Witness ==
    /\ call.op = "try_into_const_type_instance"
    /\ call.DISCRIMINANT = 2
    /\ ~IsVariantTag(1)
    /\ ~ImplementsConst(ConstTypeName(1), EnumT)
    /\ Len(input.variants) = 2

(* ------------------------- FieldlessEnum {A, B, C} --------------------- *)

\* the enum of the tests: three unit variants, no explicit discriminant,
\* the marker family deriving Clone, Copy and PartialEq
IsFieldlessEnum ==
    /\ input.data = "Enum"
    /\ Len(input.variants) = 3
    /\ \A i \in 1..3 : input.variants[i] = [fields |-> "Unit", disc |-> NoDisc]
    /\ input.attrs = [meta |-> "List", tokens |-> "AttrsIdent"]

MarkerIntoFieldlessEnum ==
    /\ IsFieldlessEnum
    /\ call.op = "try_from_another"
    /\ call.Self = EnumT /\ call.T = EnumT
    /\ call.arg.of.ty = "ConstTypeName"

====
